---- MODULE Spec2Model ----
(***************************************************************************)
(* Model of the phoneshift symbol registry (src/src/symbol.rs), of the     *)
(* pattern matching engine (src/src/pat.rs) and of the lexer               *)
(* (src/src/lexer.rs).                                                     *)
(*                                                                         *)
(* A Terminal is modelled by the address of its Rc<str> allocation, which  *)
(* is what eq/cmp/hash read (Terminal::ptr).  A NonTerminal is modelled by *)
(* its index in an arena of member lists (the identity of its Rc).         *)
(***************************************************************************)
EXTENDS Integers, Sequences, FiniteSets

VARIABLES
    classes,    \* arena of NonTerminalInner.members, indexed by class identity
    lookup,     \* the last NonTerminal::contains call and what it returned
    handles,    \* the live Terminal values, in creation order
    cmp,        \* the last comparison of two Terminal values
    entries,    \* the iterable last given to Table::new
    elems,      \* Table.elems
    found,      \* the last Table::find call and what it returned
    stack,      \* Pattern values built so far (operands of And / Or)
    terms,      \* the input of the last match_terms call
    res,        \* Option<Match>: <<>> before a call, <<m>> after it
    calls,      \* the match_pattern invocations made by the last match_terms
    mat,        \* a Match value
    obs,        \* what the accessors of mat last returned: <<>> or <<record>>
    source,     \* the text of the Src the Reader reads, one character per element
    reader,     \* Lexer.reader
    toks,       \* Lexer.toks
    pos,        \* Lexer.pos
    errs,       \* Diagnostic.errors
    ret         \* the last Lexer call and what it returned: <<>> or <<record>>

classVars == <<lookup>>

symVars == <<handles, cmp>>

tableVars == <<entries, elems, found>>

patVars == <<stack, terms, res, calls>>

matchVars == <<mat, obs>>

lexVars == <<source, reader, toks, pos, errs, ret>>

vars == <<classes, classVars, symVars, tableVars, patVars, matchVars, lexVars>>

----------------------------------------------------------------------------
(* Bounds *)

NumTerms == 2       \* terminals of the alphabet (distinct allocations)
MaxInputLen == 2    \* length of the matched input
MaxSegments == 2    \* segments of a Match value
MaxPos == 4         \* positions a segment of a Match value may cover
MaxSrcLen == 3      \* characters of the lexed source
MaxCount == 2       \* count given to Lexer::advance and Lexer::rollback
MaxPatSize == 6     \* nodes plus literal terminals of a pattern tree
MaxArenaSize == 6   \* classes plus members of a class arena
MaxHandles == 3     \* live Terminal values
NumDescs == 3       \* distinct description texts
MaxEntries == 5     \* length of the iterable given to Table::new

Terminals == 1 .. NumTerms

SeqsUpTo(S, n) == UNION {[1 .. k -> S] : k \in 0 .. n}

Inputs == SeqsUpTo(Terminals, MaxInputLen)

----------------------------------------------------------------------------
(* symbol.rs: Symbol, NonTerminal::members, NonTerminal::contains *)

Term(t) == [tag |-> "Term", term |-> t]

NonTermSym(c) == [tag |-> "NonTerm", cls |-> c]

members(arena, c) == arena[c]

RECURSIVE contains_first_class(_, _, _, _)
\* contains with the answer of the first nested class returned as the answer.
contains_first_class(arena, c, term, i) ==
    IF i > Len(members(arena, c)) THEN FALSE
    ELSE LET member == members(arena, c)[i] IN
         IF member.tag = "Term" /\ member.term = term THEN TRUE
         ELSE IF member.tag = "NonTerm"
              THEN contains_first_class(arena, member.cls, term, 1)
         ELSE contains_first_class(arena, c, term, i + 1)

RECURSIVE contains_from(_, _, _, _)
\* The loop of NonTerminal::contains from member index i on: the first member
\* that is the terminal, or a class containing it, returns true.
contains_from(arena, c, term, i) ==
    IF i > Len(members(arena, c)) THEN FALSE
    ELSE LET member == members(arena, c)[i] IN
         IF member.tag = "Term" /\ member.term = term THEN TRUE
         ELSE IF member.tag = "NonTerm" /\ contains_from(arena, member.cls, term, 1)
              THEN TRUE
         ELSE contains_from(arena, c, term, i + 1)

contains(arena, c, term) == contains_from(arena, c, term, 1)

----------------------------------------------------------------------------
(* symbol.rs: Terminal *)

\* Description texts, each stood for by its rank under str::cmp.
Descs == 1 .. NumDescs

\* Addresses the allocator may hand out: enough for every live value.
Addrs == 1 .. MaxHandles

\* A Terminal value: the address of its Rc<str> allocation and the text there.
\* origin is the Terminal::new call that made the allocation (history only).
Terminal(ptr, desc, origin) == [ptr |-> ptr, desc |-> desc, origin |-> origin]

\* Terminal::ptr
ptr(t) == t.ptr

\* Equality by description text.
Terminal_eq_text(a, b) == a.desc = b.desc

\* impl PartialEq for Terminal
Terminal_eq(a, b) == ptr(a) = ptr(b)

\* Addresses Rc::from may return: those of no live allocation.
fresh_addrs(live) == Addrs \ {ptr(t) : t \in live}

----------------------------------------------------------------------------
(* symbol.rs: DescKey, Table *)

\* str::cmp on two descriptions.
str_cmp(a, b) == IF a < b THEN "Less" ELSE IF a > b THEN "Greater" ELSE "Equal"

\* DescKey::cmp_desc
cmp_desc(a, b) == str_cmp(a.desc, b.desc)

RECURSIVE insert_sorted(_, _)
\* x placed after every element that does not compare Greater than it.
insert_sorted(sorted, x) ==
    IF sorted = <<>> THEN <<x>>
    ELSE IF cmp_desc(Head(sorted), x) = "Greater" THEN <<x>> \o sorted
    ELSE <<Head(sorted)>> \o insert_sorted(Tail(sorted), x)

RECURSIVE sort_by(_)
\* slice::sort_by(cmp_desc): a stable sort, equal elements keep their order.
sort_by(v) ==
    IF v = <<>> THEN <<>>
    ELSE insert_sorted(sort_by(SubSeq(v, 1, Len(v) - 1)), v[Len(v)])

\* Vec::remove(i), i counted from 0.
remove(v, i) == SubSeq(v, 1, i) \o SubSeq(v, i + 2, Len(v))

RECURSIVE dedup_keep_first(_, _)
\* The loop with the later of two equal neighbours removed.
dedup_keep_first(v, i) ==
    IF i < Len(v)
    THEN IF v[i].desc = v[i + 1].desc
         THEN dedup_keep_first(remove(v, i), i)
         ELSE dedup_keep_first(v, i + 1)
    ELSE v

RECURSIVE dedup_from(_, _)
\* The while loop of Table::new from index i on (i counted from 0, as in the
\* source): of two neighbours with one description the earlier is removed.
dedup_from(v, i) ==
    IF i < Len(v)
    THEN IF v[i].desc = v[i + 1].desc
         THEN dedup_from(remove(v, i - 1), i)
         ELSE dedup_from(v, i + 1)
    ELSE v

Table_new(iterable) == dedup_from(sort_by(iterable), 1)

RECURSIVE binary_search_short(_, _, _, _)
\* The search with the upper half cut at mid - 1, as for an inclusive bound.
binary_search_short(v, desc, left, right) ==
    IF left < right
    THEN LET mid == left + ((right - left) \div 2)
             ord == str_cmp(v[mid + 1].desc, desc)
         IN  IF ord = "Less" THEN binary_search_short(v, desc, mid + 1, right)
             ELSE IF ord = "Greater" THEN binary_search_short(v, desc, left, mid - 1)
             ELSE <<mid>>
    ELSE <<>>

RECURSIVE binary_search_by(_, _, _, _)
\* slice::binary_search_by over v[left .. right] (indices counted from 0):
\* <<index>> for Ok(index), <<>> for Err.
binary_search_by(v, desc, left, right) ==
    IF left < right
    THEN LET mid == left + ((right - left) \div 2)
             ord == str_cmp(v[mid + 1].desc, desc)
         IN  IF ord = "Less" THEN binary_search_by(v, desc, mid + 1, right)
             ELSE IF ord = "Greater" THEN binary_search_by(v, desc, left, mid)
             ELSE <<mid>>
    ELSE <<>>

\* Table::find: Option<&S>, <<>> for None and <<entry>> for Some(entry).
find(v, desc) ==
    LET index == binary_search_by(v, desc, 0, Len(v)) IN
    IF index = <<>> THEN <<>> ELSE <<v[index[1] + 1]>>

----------------------------------------------------------------------------
(* pat.rs: MatchSegment, Match *)

MatchSegment(start, len) == [start |-> start, len |-> len]

Match(segments) == [segments |-> segments, panicked |-> FALSE]

\* Match::default(): the unmatched Match.
MatchDefault == Match(<<>>)

\* A panic (slice start out of range) unwinding through the callers.
Panic == [segments |-> <<>>, panicked |-> TRUE]

matched(m) == Len(m.segments) > 0

unmatched(m) == Len(m.segments) = 0

\* Match::add_offset
add_offset(self, offset) ==
    Match([i \in 1 .. Len(self.segments) |->
              [self.segments[i] EXCEPT !.start = @ + offset]])

general_start(m) == IF matched(m) THEN m.segments[1].start ELSE 0

\* general_end read from the first segment.
general_end_first(m) ==
    IF matched(m) THEN m.segments[1].start + m.segments[1].len ELSE 0

general_end(m) ==
    IF matched(m)
    THEN m.segments[Len(m.segments)].start + m.segments[Len(m.segments)].len
    ELSE 0

general_len(m) == general_end(m) - general_start(m)

\* The merge with other's segments pushed after self's, none combined.
merge_push(self, other) == Match(self.segments \o other.segments)

\* The contiguous branch of Match::append: other's first segment is removed and
\* its length added to self's last segment, other's remaining segments follow.
merge(self, other) ==
    LET first == Head(other.segments)
        last == Len(self.segments)
    IN  Match([self.segments EXCEPT ![last].len = @ + first.len]
              \o Tail(other.segments))

\* append with self kept when the closure's Match is unmatched.
append_keep(self, other) ==
    IF matched(self)
    THEN IF other.panicked THEN other
         ELSE IF unmatched(other) THEN self
         ELSE IF general_end(self) = general_start(other)
              THEN Match([self.segments EXCEPT ![Len(self.segments)].len =
                              @ + Head(other.segments).len]
                         \o Tail(other.segments))
         ELSE self
    ELSE self

\* Match::append. other is the Match the closure right returns for self, which
\* the source computes only when self is matched.
append(self, other) ==
    IF matched(self)
    THEN IF other.panicked THEN other
         ELSE IF unmatched(other) THEN other
         ELSE IF general_end(self) = general_start(other) THEN merge(self, other)
         ELSE self
    ELSE self

----------------------------------------------------------------------------
(* pat.rs: Pattern *)

Terms(seq) == [kind |-> "Terms", seq |-> seq]

NonTerm(c) == [kind |-> "NonTerm", cls |-> c]

And(l, r) == [kind |-> "And", left |-> l, right |-> r]

Or(l, r) == [kind |-> "Or", left |-> l, right |-> r]

\* starts_with that compares only the positions both slices have.
starts_with_overlap(s, prefix) ==
    \A i \in 1 .. Len(prefix) : i <= Len(s) => s[i] = prefix[i]

\* <[T]>::starts_with
starts_with(s, prefix) ==
    /\ Len(prefix) <= Len(s)
    /\ \A i \in 1 .. Len(prefix) : s[i] = prefix[i]

\* terms[offset ..]; the caller has checked offset <= terms.len()
slice_from(s, offset) == SubSeq(s, offset + 1, Len(s))

\* The literal run compared with the whole remaining input.
match_term_pat_whole(pat, input, offset) ==
    IF offset > Len(input) THEN [segments |-> <<>>, panicked |-> TRUE]
    ELSE IF SubSeq(input, offset + 1, Len(input)) = pat
         THEN [segments |-> <<[start |-> offset, len |-> Len(pat)]>>,
               panicked |-> FALSE]
         ELSE [segments |-> <<>>, panicked |-> FALSE]

match_term_pat(pat, input, offset) ==
    IF offset > Len(input) THEN Panic
    ELSE IF starts_with(slice_from(input, offset), pat)
         THEN Match(<<MatchSegment(offset, Len(pat))>>)
         ELSE Match(<<>>)

\* The class tested on the terminal at offset wherever one is left.
match_non_term_pat_any(arena, non_term, input, offset) ==
    IF Len(input) >= offset + 1 /\ contains(arena, non_term, input[offset + 1])
    THEN [segments |-> <<[start |-> offset, len |-> 1]>>, panicked |-> FALSE]
    ELSE [segments |-> <<>>, panicked |-> FALSE]

\* The class segment started at 0, not at offset.
match_non_term_pat_start0(arena, non_term, input, offset) ==
    IF Len(input) = offset + 1 /\ contains(arena, non_term, input[offset + 1])
    THEN [segments |-> <<[start |-> 0, len |-> 1]>>, panicked |-> FALSE]
    ELSE [segments |-> <<>>, panicked |-> FALSE]

match_non_term_pat(arena, non_term, input, offset) ==
    IF Len(input) = offset + 1 /\ contains(arena, non_term, input[offset + 1])
    THEN Match(<<MatchSegment(offset, 1)>>)
    ELSE Match(<<>>)

RECURSIVE match_pattern(_, _, _, _)

\* And with right evaluated at the offset of left, not at its end.
match_and_pat_same_offset(arena, left, right, input, offset) ==
    LET lmatch == match_pattern(arena, left, input, offset) IN
    IF lmatch.panicked THEN lmatch
    ELSE append(lmatch, match_pattern(arena, right, input, general_start(lmatch)))

match_and_pat(arena, left, right, input, offset) ==
    LET lmatch == match_pattern(arena, left, input, offset) IN
    IF lmatch.panicked THEN lmatch
    ELSE append(lmatch, match_pattern(arena, right, input, general_end(lmatch)))

\* Or with right tried first.
match_or_pat_right_first(arena, left, right, input, offset) ==
    LET rmatch == match_pattern(arena, right, input, offset) IN
    IF rmatch.panicked THEN rmatch
    ELSE IF matched(rmatch) THEN rmatch
    ELSE match_pattern(arena, left, input, offset)

match_or_pat(arena, left, right, input, offset) ==
    LET lmatch == match_pattern(arena, left, input, offset) IN
    IF lmatch.panicked THEN lmatch
    ELSE IF matched(lmatch) THEN lmatch
    ELSE match_pattern(arena, right, input, offset)

match_pattern(arena, pat, input, offset) ==
    CASE pat.kind = "Terms" -> match_term_pat(pat.seq, input, offset)
      [] pat.kind = "NonTerm" -> match_non_term_pat(arena, pat.cls, input, offset)
      [] pat.kind = "And" -> match_and_pat(arena, pat.left, pat.right, input, offset)
      [] pat.kind = "Or" -> match_or_pat(arena, pat.left, pat.right, input, offset)

match_terms(arena, pat, input) == match_pattern(arena, pat, input, 0)

RECURSIVE match_calls(_, _, _, _)
\* The invocations of match_pattern that evaluating pat at offset makes, itself
\* included, each with the Match it returns: And evaluates right only after a
\* matched left, at left's end; Or evaluates right only after an unmatched left.
match_calls(arena, pat, input, offset) ==
    LET this == [pat |-> pat, offset |-> offset,
                 result |-> match_pattern(arena, pat, input, offset)]
        lmatch == match_pattern(arena, pat.left, input, offset)
        lcalls == match_calls(arena, pat.left, input, offset)
    IN  CASE pat.kind \in {"Terms", "NonTerm"} -> {this}
          [] pat.kind = "And" ->
                {this} \cup lcalls \cup
                (IF ~lmatch.panicked /\ matched(lmatch)
                 THEN match_calls(arena, pat.right, input, general_end(lmatch))
                 ELSE {})
          [] pat.kind = "Or" ->
                {this} \cup lcalls \cup
                (IF ~lmatch.panicked /\ unmatched(lmatch)
                 THEN match_calls(arena, pat.right, input, offset)
                 ELSE {})

----------------------------------------------------------------------------
(* error.rs: ErrorKind, Diagnostic *)

BadChar(span) == [name |-> "BadChar", span |-> span]

UnclosedString(span) == [name |-> "UnclosedString", span |-> span]

\* Diagnostic::raise
raise(diag, kind) == Append(diag, [kind |-> kind, warning |-> FALSE])

----------------------------------------------------------------------------
(* source.rs: Reader, a cursor over the characters of the source.  pos is   *)
(* the number of characters passed, mark the start of the current span.    *)

Reader_new == [pos |-> 0, mark |-> 0]

\* Reader::curr: Option<&str>
reader_curr(s, r) == IF r.pos < Len(s) THEN <<s[r.pos + 1]>> ELSE <<>>

\* The bool Reader::next returns: whether there was a character to pass.
reader_moves(s, r) == r.pos < Len(s)

\* Reader::next
reader_next(s, r) == IF r.pos < Len(s) THEN [r EXCEPT !.pos = @ + 1] ELSE r

\* Reader::mark
reader_mark(r) == [r EXCEPT !.mark = r.pos]

\* Reader::span
reader_span(r) == [start |-> r.mark, end |-> r.pos]

\* Span::content
content(s, span) == SubSeq(s, span.start + 1, span.end)

----------------------------------------------------------------------------
(* lexer.rs: Lexer.  A Result<Token, ()> is [ok, tok], tok holding the     *)
(* Token of an Ok.  The read_* operators return the Result together with   *)
(* the reader and the diagnostics they leave.                              *)

WhitespaceChars == {" ", "\n"}

\* The characters of the model's sources that Lexer::is_unquoted accepts.
UnquotedChars == {"x"}

\* One character of each kind Lexer::read tells apart; "#" starts no token.
Chars == WhitespaceChars \cup UnquotedChars \cup {";", "'", "\\", "(", ",", "#"}

Sources == SeqsUpTo(Chars, MaxSrcLen)

Ok(kind, text, span) ==
    [ok |-> TRUE, tok |-> <<[kind |-> kind, text |-> text, span |-> span]>>]

Err == [ok |-> FALSE, tok |-> <<>>]

is_whitespace(s, r) ==
    reader_curr(s, r) # <<>> /\ reader_curr(s, r)[1] \in WhitespaceChars

is_unquoted(s, r) ==
    reader_curr(s, r) # <<>> /\ reader_curr(s, r)[1] \in UnquotedChars

\* is_quoted_start, is_class_ident_start, is_equal_symbol, is_comma, is_pipe,
\* is_open_paren, is_close_paren: the current character is ch.
is_char(s, r, ch) == reader_curr(s, r) = <<ch>>

RECURSIVE skip_whitespace(_, _)
skip_whitespace(s, r) ==
    IF is_whitespace(s, r)
    THEN [skip_whitespace(s, reader_next(s, r)) EXCEPT !.skipped = TRUE]
    ELSE [reader |-> r, skipped |-> FALSE]

\* The loop of skip_comment: up to the end of the line or of the source.
RECURSIVE skip_line(_, _)
skip_line(s, r) ==
    IF reader_curr(s, r) # <<>> /\ reader_curr(s, r) # <<"\n">>
    THEN skip_line(s, reader_next(s, r))
    ELSE r

\* skip_comment, with skip_line_comment_start
skip_comment(s, r) ==
    IF is_char(s, r, ";")
    THEN [reader |-> skip_line(s, reader_next(s, r)), skipped |-> TRUE]
    ELSE [reader |-> r, skipped |-> FALSE]

\* while self.skip_comment() && self.skip_whitespace() {}
RECURSIVE skip_discardable_loop(_, _)
skip_discardable_loop(s, r) ==
    LET c == skip_comment(s, r)
        w == skip_whitespace(s, c.reader)
    IN  IF ~c.skipped THEN c.reader
        ELSE IF w.skipped THEN skip_discardable_loop(s, w.reader)
        ELSE w.reader

skip_discardable(s, r) == skip_discardable_loop(s, skip_whitespace(s, r).reader)

\* The loop of read_unquoted and read_class_ident.
RECURSIVE skip_unquoted(_, _)
skip_unquoted(s, r) ==
    IF is_unquoted(s, r) THEN skip_unquoted(s, reader_next(s, r)) ELSE r

KwAlphabet == <<"a", "l", "p", "h", "a", "b", "e", "t">>

KwClass == <<"c", "l", "a", "s", "s">>

read_unquoted(s, r, e) ==
    LET end == skip_unquoted(s, reader_mark(r))
        span == reader_span(end)
    IN  [res |-> IF content(s, span) = KwAlphabet THEN Ok("Alphabet", <<>>, span)
                 ELSE IF content(s, span) = KwClass THEN Ok("Class", <<>>, span)
                 ELSE Ok("String", content(s, span), span),
         reader |-> end,
         errs |-> e]

read_class_ident(s, r, e) ==
    LET start == reader_next(s, reader_mark(r))
        end == skip_unquoted(s, start)
    IN  [res |-> Ok("ClassIdent", SubSeq(s, start.pos + 1, end.pos),
                    reader_span(end)),
         reader |-> end,
         errs |-> e]

read_escaped(s, r, e) ==
    LET n == reader_next(s, r) IN
    IF reader_curr(s, n) = <<>>
    THEN [ok |-> FALSE, ch |-> "", reader |-> n,
          errs |-> raise(e, UnclosedString(reader_span(n)))]
    ELSE [ok |-> TRUE, ch |-> reader_curr(s, n)[1], reader |-> n, errs |-> e]

\* The loop of read_quoted and what follows it.
RECURSIVE read_quoted_loop(_, _, _, _)
read_quoted_loop(s, r, e, string) ==
    LET n == reader_next(s, r)
        ch == reader_curr(s, n)
        esc == read_escaped(s, n, e)
        after == reader_next(s, n)
    IN  IF ch = <<>>
        THEN [res |-> Err, reader |-> n,
              errs |-> raise(e, UnclosedString(reader_span(n)))]
        ELSE IF ch = <<"\\">>
        THEN IF esc.ok
             THEN read_quoted_loop(s, esc.reader, esc.errs, Append(string, esc.ch))
             ELSE [res |-> Err, reader |-> esc.reader, errs |-> esc.errs]
        ELSE IF ch = <<"'">>
        THEN [res |-> Ok("String", string, reader_span(after)),
              reader |-> after, errs |-> e]
        ELSE read_quoted_loop(s, n, e, Append(string, ch[1]))

read_quoted(s, r, e) == read_quoted_loop(s, reader_mark(r), e, <<>>)

\* read_equal_symbol, read_comma, read_pipe, read_open_paren, read_close_paren
read_symbol(s, r, e, kind) ==
    LET end == reader_next(s, reader_mark(r)) IN
    [res |-> Ok(kind, <<>>, reader_span(end)), reader |-> end, errs |-> e]

read_eof(s, r, e) ==
    LET m == reader_mark(r)
        n == reader_next(s, m)
    IN  IF reader_moves(s, m)
        THEN [res |-> Err, reader |-> n,
              errs |-> raise(e, BadChar(reader_span(n)))]
        ELSE [res |-> Ok("Eof", <<>>, reader_span(m)), reader |-> m, errs |-> e]

read(s, r, e) ==
    LET d == skip_discardable(s, r) IN
    IF is_unquoted(s, d) THEN read_unquoted(s, d, e)
    ELSE IF is_char(s, d, "'") THEN read_quoted(s, d, e)
    ELSE IF is_char(s, d, "\\") THEN read_class_ident(s, d, e)
    ELSE IF is_char(s, d, "=") THEN read_symbol(s, d, e, "Eq")
    ELSE IF is_char(s, d, ",") THEN read_symbol(s, d, e, "Comma")
    ELSE IF is_char(s, d, "|") THEN read_symbol(s, d, e, "Pipe")
    ELSE IF is_char(s, d, "(") THEN read_symbol(s, d, e, "OpenParen")
    ELSE IF is_char(s, d, ")") THEN read_symbol(s, d, e, "CloseParen")
    ELSE read_eof(s, d, e)

\* Lexer::new, with the diagnostics it leaves
Lexer_new(s, e) ==
    LET rd == read(s, Reader_new, e) IN
    [lexer |-> [toks |-> <<rd.res>>, pos |-> 0, reader |-> rd.reader],
     errs |-> rd.errs]

\* Lexer::curr
curr(lx) == lx.toks[lx.pos + 1]

\* Lexer::is_eof
is_eof(lx) == curr(lx).ok /\ curr(lx).tok[1].kind = "Eof"

Min(a, b) == IF a <= b THEN a ELSE b

\* The loop of advance stopping only at an error, not at Eof.
RECURSIVE advance_loop_past_eof(_, _, _, _, _)
advance_loop_past_eof(s, lx, e, advanced, count) ==
    LET rd == read(s, lx.reader, e) IN
    IF curr(lx).ok /\ advanced < count
    THEN advance_loop_past_eof(s,
                               [toks |-> Append(lx.toks, rd.res),
                                pos |-> lx.pos + 1,
                                reader |-> rd.reader],
                               rd.errs, advanced + 1, count)
    ELSE [lexer |-> lx, errs |-> e, advanced |-> advanced]

\* advance reading on after Eof.
advance_past_eof(s, lx, e, count) ==
    LET advanced == Min(count, Len(lx.toks) - lx.pos - 1) IN
    advance_loop_past_eof(s, [lx EXCEPT !.pos = @ + advanced], e, advanced, count)

\* The loop of Lexer::advance
RECURSIVE advance_loop(_, _, _, _, _)
advance_loop(s, lx, e, advanced, count) ==
    LET rd == read(s, lx.reader, e) IN
    IF curr(lx).ok /\ curr(lx).tok[1].kind # "Eof" /\ advanced < count
    THEN advance_loop(s,
                      [toks |-> Append(lx.toks, rd.res),
                       pos |-> lx.pos + 1,
                       reader |-> rd.reader],
                      rd.errs, advanced + 1, count)
    ELSE [lexer |-> lx, errs |-> e, advanced |-> advanced]

\* Lexer::advance
advance(s, lx, e, count) ==
    LET advanced == Min(count, Len(lx.toks) - lx.pos - 1) IN
    advance_loop(s, [lx EXCEPT !.pos = @ + advanced], e, advanced, count)

\* rollback returning the requested count.
rollback_count(lx, count) ==
    [lexer |-> [lx EXCEPT !.pos = @ - Min(count, lx.pos)], rolled |-> count]

\* Lexer::rollback
rollback(lx, count) ==
    LET rolled == Min(count, lx.pos) IN
    [lexer |-> [lx EXCEPT !.pos = @ - rolled], rolled |-> rolled]

----------------------------------------------------------------------------
(* NonTerminal::new and NonTerminal::contains as a state machine *)

ClassInit == lookup = <<>>

SymInit ==
    /\ handles = <<>>
    /\ cmp = <<>>

TableInit ==
    /\ entries = <<>>
    /\ elems = Table_new(<<>>)
    /\ found = <<>>

PatInit ==
    /\ stack = <<>>
    /\ terms = <<>>
    /\ res = <<>>
    /\ calls = {}

MatchInit ==
    /\ mat = MatchDefault
    /\ obs = <<>>

\* The state Lexer::new leaves for the source s and a new Diagnostic.
LexerAt(s) ==
    /\ source = s
    /\ reader = Lexer_new(s, <<>>).lexer.reader
    /\ toks = Lexer_new(s, <<>>).lexer.toks
    /\ pos = Lexer_new(s, <<>>).lexer.pos
    /\ errs = Lexer_new(s, <<>>).errs
    /\ ret = <<>>

LexInit == LexerAt(<<>>)

RECURSIVE arena_size(_)
\* Classes plus members of the arena.
arena_size(arena) ==
    IF arena = <<>> THEN 0
    ELSE 1 + Len(Head(arena)) + arena_size(Tail(arena))

\* The symbols that exist when a class is built: the terminals of the alphabet
\* and the classes built before it.
Symbols(arena) ==
    {Term(t) : t \in Terminals} \cup {NonTermSym(c) : c \in 1 .. Len(arena)}

InitClass ==
    /\ classes = <<>>
    /\ ClassInit
    /\ SymInit
    /\ TableInit
    /\ PatInit
    /\ MatchInit
    /\ LexInit

NonTerminal_new ==
    /\ arena_size(classes) < MaxArenaSize
    /\ \E ms \in SeqsUpTo(Symbols(classes), MaxArenaSize - arena_size(classes) - 1) :
          classes' = Append(classes, ms)
    /\ lookup' = <<>>
    /\ UNCHANGED <<symVars, tableVars, patVars, matchVars, lexVars>>

Contains ==
    /\ \E c \in 1 .. Len(classes), t \in Terminals :
          lookup' = <<[cls |-> c, term |-> t, result |-> contains(classes, c, t)]>>
    /\ UNCHANGED <<classes, symVars, tableVars, patVars, matchVars, lexVars>>

NextClass ==
    \/ NonTerminal_new
    \/ Contains

SpecClass == InitClass /\ [][NextClass]_vars

----------------------------------------------------------------------------
(* Terminal::new, Clone and == as a state machine *)

\* The Terminal::new calls made so far.
news == {handles[i].origin : i \in 1 .. Len(handles)}

InitSymbol ==
    /\ classes = <<>>
    /\ ClassInit
    /\ SymInit
    /\ TableInit
    /\ PatInit
    /\ MatchInit
    /\ LexInit

\* Terminal::new(desc): a new allocation, at any address not in use.
Terminal_new ==
    /\ Len(handles) < MaxHandles
    /\ \E desc \in Descs, p \in fresh_addrs({handles[i] : i \in 1 .. Len(handles)}) :
          handles' = Append(handles, Terminal(p, desc, Cardinality(news) + 1))
    /\ cmp' = <<>>
    /\ UNCHANGED <<classes, classVars, tableVars, patVars, matchVars, lexVars>>

\* #[derive(Clone)]: Rc::clone shares the allocation.
Terminal_clone ==
    /\ Len(handles) < MaxHandles
    /\ \E i \in 1 .. Len(handles) :
          handles' = Append(handles, handles[i])
    /\ cmp' = <<>>
    /\ UNCHANGED <<classes, classVars, tableVars, patVars, matchVars, lexVars>>

\* a == b, and Pattern::Terms(vec![a]).match_terms(&[b]).
Compare ==
    /\ \E i, j \in 1 .. Len(handles) :
          cmp' = <<[a |-> handles[i], b |-> handles[j],
                    eq |-> Terminal_eq(handles[i], handles[j]),
                    m |-> match_terms(classes, Terms(<<ptr(handles[i])>>),
                                      <<ptr(handles[j])>>)]>>
    /\ UNCHANGED <<classes, handles, classVars, tableVars, patVars, matchVars, lexVars>>

NextSymbol ==
    \/ Terminal_new
    \/ Terminal_clone
    \/ Compare

SpecSymbol == InitSymbol /\ [][NextSymbol]_vars

----------------------------------------------------------------------------
(* Table::new and Table::find as a state machine *)

\* The iterables given to Table::new: entry k is the k-th value built, so two
\* entries of one description are still told apart.
Iterables ==
    {[k \in 1 .. Len(ds) |-> [desc |-> ds[k], id |-> k]] :
        ds \in SeqsUpTo(Descs, MaxEntries)}

InitTable ==
    /\ classes = <<>>
    /\ ClassInit
    /\ SymInit
    /\ TableInit
    /\ PatInit
    /\ MatchInit
    /\ LexInit

\* A table is built once and is immutable afterwards.
TableNew ==
    /\ entries = <<>>
    /\ \E iterable \in Iterables :
          /\ entries' = iterable
          /\ elems' = Table_new(iterable)
    /\ found' = <<>>
    /\ UNCHANGED <<classes, classVars, symVars, patVars, matchVars, lexVars>>

TableFind ==
    /\ \E desc \in Descs :
          found' = <<[desc |-> desc, result |-> find(elems, desc)]>>
    /\ UNCHANGED <<classes, entries, elems, classVars, symVars, patVars, matchVars, lexVars>>

NextTable ==
    \/ TableNew
    \/ TableFind

SpecTable == InitTable /\ [][NextTable]_vars


----------------------------------------------------------------------------
(* Match values and their accessors (pat.rs, impl Match) *)

MatchSegments ==
    {seg \in [start : 0 .. MaxPos, len : 0 .. MaxPos] :
        seg.start + seg.len <= MaxPos}

\* Segments are ordered by position: each one ends before the next starts.
ordered(segments) ==
    \A i \in 1 .. Len(segments) - 1 :
        segments[i].start + segments[i].len <= segments[i + 1].start

Matches ==
    {Match(segments) :
        segments \in {q \in SeqsUpTo(MatchSegments, MaxSegments) : ordered(q)}}

InitMatch ==
    /\ classes = <<>>
    /\ ClassInit
    /\ SymInit
    /\ TableInit
    /\ PatInit
    /\ LexInit
    /\ mat \in Matches
    /\ obs = <<>>

\* A caller reads every accessor of the Match.
Accessors ==
    /\ obs' = <<[matched |-> matched(mat),
                 unmatched |-> unmatched(mat),
                 general_start |-> general_start(mat),
                 general_end |-> general_end(mat),
                 general_len |-> general_len(mat)]>>
    /\ UNCHANGED <<classes, mat, classVars, symVars, tableVars, patVars, lexVars>>

AddOffset ==
    /\ \E offset \in 0 .. MaxPos :
          /\ general_end(mat) + offset <= MaxPos
          /\ mat' = add_offset(mat, offset)
    /\ obs' = <<>>
    /\ UNCHANGED <<classes, classVars, symVars, tableVars, patVars, lexVars>>

MatchAppend ==
    /\ \E other \in Matches :
          /\ Len(append(mat, other).segments) <= MaxSegments
          /\ mat' = append(mat, other)
    /\ obs' = <<>>
    /\ UNCHANGED <<classes, classVars, symVars, tableVars, patVars, lexVars>>

NextMatch ==
    \/ Accessors
    \/ AddOffset
    \/ MatchAppend

SpecMatch == InitMatch /\ [][NextMatch]_vars

----------------------------------------------------------------------------
(* The pattern builder and matcher as a state machine *)

RECURSIVE pat_size(_)
pat_size(pat) ==
    CASE pat.kind = "Terms" -> 1 + Len(pat.seq)
      [] pat.kind = "NonTerm" -> 1
      [] OTHER -> 1 + pat_size(pat.left) + pat_size(pat.right)

RECURSIVE stack_size(_)
\* Size of the pattern that the stack's operands combine into.
stack_size(s) ==
    IF s = <<>> THEN 0
    ELSE pat_size(Head(s)) + stack_size(Tail(s)) + (IF Len(s) > 1 THEN 1 ELSE 0)

\* Two classes over the alphabet, the second nesting the first.
PatClasses == <<  <<Term(1)>>,  <<NonTermSym(1), Term(NumTerms)>>  >>

Init ==
    /\ classes = PatClasses
    /\ ClassInit
    /\ SymInit
    /\ TableInit
    /\ PatInit
    /\ MatchInit
    /\ LexInit

\* The stack once pat is pushed, when the pattern it builds stays within bounds.
CanPush(pat) == stack_size(Append(stack, pat)) <= MaxPatSize

\* The stack once its two topmost patterns are replaced by their combination.
Combined(pat) == Append(SubSeq(stack, 1, Len(stack) - 2), pat)

NewTerms ==
    /\ \E seq \in Inputs :
          /\ CanPush(Terms(seq))
          /\ stack' = Append(stack, Terms(seq))
    /\ terms' = <<>>
    /\ res' = <<>>
    /\ calls' = {}
    /\ UNCHANGED <<classes, classVars, symVars, tableVars, matchVars, lexVars>>

NewNonTerm ==
    /\ \E c \in 1 .. Len(classes) :
          /\ CanPush(NonTerm(c))
          /\ stack' = Append(stack, NonTerm(c))
    /\ terms' = <<>>
    /\ res' = <<>>
    /\ calls' = {}
    /\ UNCHANGED <<classes, classVars, symVars, tableVars, matchVars, lexVars>>

NewAnd ==
    /\ Len(stack) >= 2
    /\ stack' = Combined(And(stack[Len(stack) - 1], stack[Len(stack)]))
    /\ terms' = <<>>
    /\ res' = <<>>
    /\ calls' = {}
    /\ UNCHANGED <<classes, classVars, symVars, tableVars, matchVars, lexVars>>

NewOr ==
    /\ Len(stack) >= 2
    /\ stack' = Combined(Or(stack[Len(stack) - 1], stack[Len(stack)]))
    /\ terms' = <<>>
    /\ res' = <<>>
    /\ calls' = {}
    /\ UNCHANGED <<classes, classVars, symVars, tableVars, matchVars, lexVars>>

MatchTerms ==
    /\ Len(stack) = 1
    /\ res = <<>>
    /\ \E input \in Inputs :
          /\ terms' = input
          /\ res' = <<match_terms(classes, stack[1], input)>>
          /\ calls' = match_calls(classes, stack[1], input, 0)
    /\ UNCHANGED <<classes, stack, classVars, symVars, tableVars, matchVars, lexVars>>

Next ==
    \/ NewTerms
    \/ NewNonTerm
    \/ NewAnd
    \/ NewOr
    \/ MatchTerms

Spec == Init /\ [][Next]_vars

----------------------------------------------------------------------------
(* The Lexer as a state machine *)

this == [toks |-> toks, pos |-> pos, reader |-> reader]

InitLexer ==
    /\ classes = <<>>
    /\ ClassInit
    /\ SymInit
    /\ TableInit
    /\ PatInit
    /\ MatchInit
    /\ \E s \in Sources : LexerAt(s)

LexerNext ==
    /\ toks' = advance(source, this, errs, 1).lexer.toks
    /\ pos' = advance(source, this, errs, 1).lexer.pos
    /\ reader' = advance(source, this, errs, 1).lexer.reader
    /\ errs' = advance(source, this, errs, 1).errs
    /\ ret' = <<[op |-> "next",
                 returned |-> advance(source, this, errs, 1).advanced = 1]>>
    /\ UNCHANGED <<classes, source, classVars, symVars, tableVars, patVars, matchVars>>

LexerPrev ==
    /\ pos' = rollback(this, 1).lexer.pos
    /\ ret' = <<[op |-> "prev", returned |-> rollback(this, 1).rolled = 1]>>
    /\ UNCHANGED <<classes, source, reader, toks, errs>>
    /\ UNCHANGED <<classVars, symVars, tableVars, patVars, matchVars>>

LexerAdvance ==
    /\ \E count \in 0 .. MaxCount :
          /\ toks' = advance(source, this, errs, count).lexer.toks
          /\ pos' = advance(source, this, errs, count).lexer.pos
          /\ reader' = advance(source, this, errs, count).lexer.reader
          /\ errs' = advance(source, this, errs, count).errs
          /\ ret' = <<[op |-> "advance", count |-> count,
                       returned |-> advance(source, this, errs, count).advanced]>>
    /\ UNCHANGED <<classes, source, classVars, symVars, tableVars, patVars, matchVars>>

LexerRollback ==
    /\ \E count \in 0 .. MaxCount :
          /\ pos' = rollback(this, count).lexer.pos
          /\ ret' = <<[op |-> "rollback", count |-> count,
                       returned |-> rollback(this, count).rolled]>>
    /\ UNCHANGED <<classes, source, reader, toks, errs>>
    /\ UNCHANGED <<classVars, symVars, tableVars, patVars, matchVars>>

NextLexer ==
    \/ LexerNext
    \/ LexerPrev
    \/ LexerAdvance
    \/ LexerRollback

SpecLexer == InitLexer /\ [][NextLexer]_vars

----------------------------------------------------------------------------
(* Properties of the registry and of the symbols *)

\* The descriptions occurring in a sequence of entries.
DescsOf(v) == {v[k].desc : k \in 1 .. Len(v)}

\* The entry of description d that comes last in v.
LastOf(v, d) ==
    v[CHOOSE k \in 1 .. Len(v) :
          /\ v[k].desc = d
          /\ \A j \in k + 1 .. Len(v) : v[j].desc # d]

\* C5: the table holds exactly one entry per distinct description of the
\* input, and it is the entry that comes last in the input with that
\* description.
C5_LastEntryWins ==
    /\ DescsOf(elems) = DescsOf(entries)
    /\ Len(elems) = Cardinality(DescsOf(entries))
    /\ \A i \in 1 .. Len(elems) : elems[i] = LastOf(entries, elems[i].desc)

\* An input whose first and third entries share a description that the second
\* does not have, built into a table of fewer entries.
C5_Witness ==
    /\ Len(entries) >= 3
    /\ entries[1].desc = entries[3].desc
    /\ entries[2].desc < entries[1].desc
    /\ Len(elems) < Len(entries)
    /\ \E i \in 1 .. Len(elems) : elems[i] = entries[3]

\* C6: find returns the entry whose description equals the query when the
\* table has one and None when it has none, and leaves the table as it was.
C6_FindExact ==
    [][found' # found /\ found' # <<>> =>
          LET q == found'[1].desc
              hits == {i \in 1 .. Len(elems) : elems[i].desc = q}
          IN  /\ elems' = elems
              /\ hits # {} => \E i \in hits : found'[1].result = <<elems[i]>>
              /\ hits = {} => found'[1].result = <<>>]_vars

\* A query answered with the last entry of a table built from an input with
\* a repeated description.
C6_Witness ==
    /\ found # <<>>
    /\ Len(elems) >= 2
    /\ Len(entries) > Len(elems)
    /\ found[1].result = <<elems[Len(elems)]>>

RECURSIVE ClassClosure(_, _)
\* The classes reachable from the classes of S through member lists.
ClassClosure(arena, S) ==
    LET held == UNION {{arena[c][k] : k \in 1 .. Len(arena[c])} : c \in S}
        nested == {d \in 1 .. Len(arena) : NonTermSym(d) \in held}
    IN  IF nested \subseteq S THEN S ELSE ClassClosure(arena, S \cup nested)

\* The terminals that are direct members of the classes of S.
DirectTerms(arena, S) ==
    {t \in Terminals : \E c \in S : \E k \in 1 .. Len(arena[c]) : arena[c][k] = Term(t)}

\* C7: N.contains(t) returns true iff t is a direct member of N or of a class
\* reachable from N through nested class members.
C7_ContainsIsClosure ==
    lookup # <<>> =>
        (lookup[1].result <=>
            lookup[1].term \in DirectTerms(classes, ClassClosure(classes, {lookup[1].cls})))

\* A terminal found two class hops away, behind a member that does not hold it.
C7_Witness ==
    /\ lookup # <<>>
    /\ lookup[1].result
    /\ LET c == lookup[1].cls
           near == {c} \cup {d \in 1 .. Len(classes) :
                                \E k \in 1 .. Len(classes[c]) :
                                    classes[c][k] = NonTermSym(d)}
       IN  lookup[1].term \notin DirectTerms(classes, near)

\* C8: two Terminal values are equal iff they come from the same Terminal::new
\* call, whatever their description text; a Terms pattern of one matches an
\* input of the other only when they are equal.
C8_IdentityEquality ==
    /\ \A i, j \in 1 .. Len(handles) :
          Terminal_eq(handles[i], handles[j]) <=> handles[i].origin = handles[j].origin
    /\ cmp # <<>> =>
          /\ cmp[1].eq <=> cmp[1].a.origin = cmp[1].b.origin
          /\ matched(cmp[1].m) <=> cmp[1].a.origin = cmp[1].b.origin

\* Two values of one text from two Terminal::new calls compared unequal and
\* unmatched, beside a clone of the first.
C8_Witness ==
    /\ cmp # <<>>
    /\ cmp[1].a.desc = cmp[1].b.desc
    /\ cmp[1].a.origin # cmp[1].b.origin
    /\ ~cmp[1].eq
    /\ unmatched(cmp[1].m)
    /\ \E i, j \in 1 .. Len(handles) :
          i # j /\ handles[i] = handles[j]

----------------------------------------------------------------------------
(* Properties of the pattern engine, checked under Spec *)

\* The pattern and the Match of the last match_terms call.
Called == res # <<>>

TopPat == stack[1]

TopMatch == res[1]

\* The Match that the invocation of match_pattern on pat at offset returned
\* during the last match_terms call.
ResultOf(pat, offset) ==
    (CHOOSE c \in calls : c.pat = pat /\ c.offset = offset).result

WasCalled(pat, offset) ==
    \E c \in calls : c.pat = pat /\ c.offset = offset

\* input starts with seq, element by element.
IsPrefix(seq, input) ==
    /\ Len(seq) <= Len(input)
    /\ SubSeq(input, 1, Len(seq)) = seq

\* C1: Terms(seq).match_terms(input) is the single segment {0, seq.len()} when
\* input starts with seq, and the unmatched Match otherwise.
C1_TermsMatch ==
    (Called /\ TopPat.kind = "Terms") =>
        TopMatch = IF IsPrefix(TopPat.seq, terms)
                   THEN Match(<<[start |-> 0, len |-> Len(TopPat.seq)]>>)
                   ELSE Match(<<>>)

\* A non-empty Terms pattern matched against a longer input that starts with it.
C1_Witness ==
    /\ Called
    /\ TopPat.kind = "Terms"
    /\ Len(TopPat.seq) >= 1
    /\ Len(terms) > Len(TopPat.seq)
    /\ TopMatch = Match(<<[start |-> 0, len |-> Len(TopPat.seq)]>>)

\* C2: NonTerm(c) evaluated at offset is matched iff offset + 1 = input.len() and
\* c contains input[offset], and is then the single segment {offset, 1}; at the
\* top level it is matched iff the input has length 1 and c contains input[0].
C2_NonTermMatch ==
    /\ \A c \in calls :
          c.pat.kind = "NonTerm" =>
            LET hit == /\ c.offset + 1 = Len(terms)
                       /\ contains(classes, c.pat.cls, terms[c.offset + 1])
            IN  c.result = IF hit
                           THEN Match(<<[start |-> c.offset, len |-> 1]>>)
                           ELSE Match(<<>>)
    /\ (Called /\ TopPat.kind = "NonTerm") =>
          (matched(TopMatch) <=>
              Len(terms) = 1 /\ contains(classes, TopPat.cls, terms[1]))

\* A class pattern matched at a non-zero offset, and one refused although the
\* terminal at its offset is in the class (more than one terminal remains).
C2_Witness ==
    /\ \E c \in calls :
          c.pat.kind = "NonTerm" /\ c.offset > 0 /\ matched(c.result)
    /\ \E c \in calls :
          /\ c.pat.kind = "NonTerm"
          /\ c.offset + 1 < Len(terms)
          /\ contains(classes, c.pat.cls, terms[c.offset + 1])
          /\ unmatched(c.result)

\* The segments of a matched left followed by a matched right: left's last and
\* right's first segment become one, of the summed length.
MergedSegments(l, r) ==
    LET n == Len(l.segments) IN
    SubSeq(l.segments, 1, n - 1)
    \o <<[start |-> l.segments[n].start,
          len |-> l.segments[n].len + r.segments[1].len]>>
    \o SubSeq(r.segments, 2, Len(r.segments))

\* C3: And(left, right) at offset is matched iff left is matched at offset and
\* right is matched at left's general_end; it then starts at offset, ends at
\* right's general_end and merges left's last with right's first segment; when
\* either side is unmatched the result is the unmatched Match.
C3_AndMatch ==
    \A c \in calls :
        c.pat.kind = "And" =>
            LET l == ResultOf(c.pat.left, c.offset)
                rcalled == WasCalled(c.pat.right, general_end(l))
                r == ResultOf(c.pat.right, general_end(l))
                both == matched(l) /\ rcalled /\ matched(r)
            IN  /\ WasCalled(c.pat.left, c.offset)
                /\ matched(l) => rcalled
                /\ matched(c.result) <=> both
                /\ both =>
                      /\ general_start(c.result) = c.offset
                      /\ general_end(c.result) = general_end(r)
                      /\ c.result.segments = MergedSegments(l, r)
                /\ ~both => c.result = Match(<<>>)

\* An And whose two sides both matched non-empty spans, and an And whose left
\* matched and whose right did not.
C3_Witness ==
    /\ \E c \in calls :
          /\ c.pat.kind = "And"
          /\ matched(c.result)
          /\ general_len(ResultOf(c.pat.left, c.offset)) >= 1
          /\ general_len(c.result) > general_len(ResultOf(c.pat.left, c.offset))
    /\ \E c \in calls :
          /\ c.pat.kind = "And"
          /\ matched(ResultOf(c.pat.left, c.offset))
          /\ unmatched(c.result)

\* C4: Or(left, right) at offset is left's result whenever left is matched,
\* whatever right would give, and right's result at the same offset whenever
\* left is unmatched.
C4_OrMatch ==
    \A c \in calls :
        c.pat.kind = "Or" =>
            LET l == ResultOf(c.pat.left, c.offset) IN
            /\ WasCalled(c.pat.left, c.offset)
            /\ matched(l) => c.result = l
            /\ unmatched(l) =>
                  /\ WasCalled(c.pat.right, c.offset)
                  /\ c.result = ResultOf(c.pat.right, c.offset)

\* An Or whose left matched without consuming the whole input while its right
\* would have matched with another span, and an Or answered by its right.
C4_Witness ==
    /\ \E c \in calls :
          /\ c.pat.kind = "Or"
          /\ matched(c.result)
          /\ c.result = ResultOf(c.pat.left, c.offset)
          /\ general_end(c.result) < Len(terms)
          /\ matched(match_pattern(classes, c.pat.right, terms, c.offset))
          /\ match_pattern(classes, c.pat.right, terms, c.offset) # c.result
    /\ \E c \in calls :
          /\ c.pat.kind = "Or"
          /\ matched(c.result)
          /\ unmatched(ResultOf(c.pat.left, c.offset))

RECURSIVE or_free(_)
\* The pattern has no Or node.
or_free(pat) ==
    CASE pat.kind \in {"Terms", "NonTerm"} -> TRUE
      [] pat.kind = "And" -> or_free(pat.left) /\ or_free(pat.right)
      [] pat.kind = "Or" -> FALSE

RECURSIVE Ends(_, _, _, _)
\* Exhaustive-search reference: every end position pat can reach from offset,
\* over all choices of Or alternatives.
Ends(arena, pat, input, offset) ==
    CASE pat.kind = "Terms" ->
            IF IsPrefix(pat.seq, SubSeq(input, offset + 1, Len(input)))
            THEN {offset + Len(pat.seq)} ELSE {}
      [] pat.kind = "NonTerm" ->
            IF offset + 1 = Len(input) /\ contains(arena, pat.cls, input[offset + 1])
            THEN {offset + 1} ELSE {}
      [] pat.kind = "And" ->
            UNION {Ends(arena, pat.right, input, e) :
                       e \in Ends(arena, pat.left, input, offset)}
      [] pat.kind = "Or" ->
            Ends(arena, pat.left, input, offset)
            \cup Ends(arena, pat.right, input, offset)

\* Some choice of Or alternatives inside left matches at offset with right
\* matching right after it.
SomeSplit(c) ==
    \E e \in Ends(classes, c.pat.left, terms, c.offset) :
        matched(match_pattern(classes, c.pat.right, terms, e))

\* C9 as stated: whenever some choice of Or alternatives inside left makes left
\* match with right matching right after it, And(left, right) is matched.
C9_NoBacktrackingNeeded ==
    \A c \in calls :
        (c.pat.kind = "And" /\ SomeSplit(c)) => matched(c.result)

\* C9 amended: when left has no Or node, And(left, right) is matched exactly
\* when the exhaustive search finds a split.
C9_OrFreeLeftAgrees ==
    \A c \in calls :
        (c.pat.kind = "And" /\ or_free(c.pat.left)) =>
            (matched(c.result) <=> SomeSplit(c))

\* An And with an Or-free left of non-zero length that the search and the code
\* both match, and an And with an Or in its left that the code matches.
C9_Witness ==
    /\ \E c \in calls :
          /\ c.pat.kind = "And"
          /\ or_free(c.pat.left)
          /\ SomeSplit(c)
          /\ matched(c.result)
          /\ general_len(ResultOf(c.pat.left, c.offset)) >= 1
          /\ general_len(c.result) > general_len(ResultOf(c.pat.left, c.offset))

\* C10: the Match that match_terms returns has at most one segment.
C10_AtMostOneSegment ==
    /\ Called => Len(TopMatch.segments) <= 1
    /\ \A c \in calls : Len(c.result.segments) <= 1

\* A matched And nested in a matched And: two merges, one segment.
C10_Witness ==
    /\ Called
    /\ TopPat.kind = "And"
    /\ \/ TopPat.left.kind = "And"
       \/ TopPat.right.kind = "And"
    /\ matched(TopMatch)
    /\ Len(TopMatch.segments) = 1
    /\ TopMatch.segments[1].len >= 2

\* C11: a matched result of match_pattern starts at the offset it was evaluated
\* at; so in every And a matched right starts at left's general_end, and the
\* branch of Match::append that leaves self unchanged (other matched but not
\* contiguous) is never taken.
C11_StartsAtOffset ==
    \A c \in calls :
        /\ matched(c.result) => general_start(c.result) = c.offset
        /\ c.pat.kind = "And" =>
              LET l == ResultOf(c.pat.left, c.offset) IN
              matched(l) =>
                  /\ WasCalled(c.pat.right, general_end(l))
                  /\ LET r == ResultOf(c.pat.right, general_end(l)) IN
                     matched(r) => general_end(l) = general_start(r)

\* An And whose right matched at a non-zero offset, after a non-empty left.
C11_Witness ==
    \E c \in calls :
        /\ c.pat.kind = "And"
        /\ matched(c.result)
        /\ general_end(ResultOf(c.pat.left, c.offset)) >= 1
        /\ general_start(ResultOf(c.pat.right,
                                  general_end(ResultOf(c.pat.left, c.offset)))) >= 1

\* C14: every offset passed to match_pattern is at most input.len() and every
\* matched result ends at most at input.len(), so that terms[offset ..] and
\* terms[offset] are never out of range: no call panics.
C14_OffsetsInRange ==
    /\ Called => ~TopMatch.panicked
    /\ \A c \in calls :
          /\ c.offset <= Len(terms)
          /\ ~c.result.panicked
          /\ matched(c.result) => general_end(c.result) <= Len(terms)

\* An empty Terms run evaluated, and matched, at the very end of a non-empty
\* input, where the slice terms[offset ..] is empty.
C14_Witness ==
    \E c \in calls :
        /\ c.pat.kind = "Terms"
        /\ c.pat.seq = <<>>
        /\ c.offset >= 1
        /\ c.offset = Len(terms)
        /\ matched(c.result)

\* C12: an unmatched Match has general_start, general_end and general_len 0;
\* a matched one starts at its first segment's start, ends at its last
\* segment's start + len, and general_len is the (non-negative) difference;
\* matched() holds iff there is a segment and is the negation of unmatched().
C12_Accessors ==
    obs # <<>> =>
        LET o == obs[1]
            n == Len(mat.segments)
        IN  /\ o.matched <=> n > 0
            /\ o.matched <=> ~o.unmatched
            /\ o.unmatched =>
                  /\ o.general_start = 0
                  /\ o.general_end = 0
                  /\ o.general_len = 0
            /\ o.matched =>
                  /\ o.general_start = mat.segments[1].start
                  /\ o.general_end = mat.segments[n].start + mat.segments[n].len
                  /\ o.general_end >= o.general_start
                  /\ o.general_len = o.general_end - o.general_start

\* The accessors read on a Match of two segments with a gap between them,
\* the first not starting at 0.
C12_Witness ==
    /\ obs # <<>>
    /\ Len(mat.segments) = 2
    /\ mat.segments[1].start >= 1
    /\ mat.segments[1].len >= 1
    /\ mat.segments[2].start > mat.segments[1].start + mat.segments[1].len
    /\ obs[1].general_len >= 3

----------------------------------------------------------------------------
(* Properties of the Lexer, checked under SpecLexer *)

\* The call made by a step, as the step leaves it in ret.
Returned(op) == ret' # <<>> /\ ret'[1].op = op

AtToken == toks[pos + 1].ok /\ toks[pos + 1].tok[1].kind # "Eof"

AtEof == toks[pos + 1].ok /\ toks[pos + 1].tok[1].kind = "Eof"

\* C13: on a token that is not Eof, next returns true and moves to the
\* following token; once the current token is Eof, next returns false and
\* advance returns 0, no token is read and curr stays Eof.
C13_NextUntilEof ==
    [][/\ (AtToken /\ Returned("next")) =>
             /\ ret'[1].returned
             /\ pos' = pos + 1
             /\ pos' < Len(toks')
             /\ SubSeq(toks', 1, Len(toks)) = toks
       /\ (AtEof /\ Returned("next")) => ~ret'[1].returned
       /\ (AtEof /\ Returned("advance")) => ret'[1].returned = 0
       /\ (AtEof /\ (Returned("next") \/ Returned("advance"))) =>
             /\ toks' = toks
             /\ reader' = reader
             /\ pos' = pos
             /\ toks'[pos' + 1] = toks[pos + 1]
      ]_vars

\* next has returned false on the Eof that follows at least two tokens.
C13_Witness ==
    /\ ret = <<[op |-> "next", returned |-> FALSE]>>
    /\ AtEof
    /\ Len(toks) >= 3
    /\ pos = Len(toks) - 1

\* Only the last buffered token may be an Eof or an error.
OnlyLastEnds ==
    \A i \in 1 .. Len(toks) - 1 : toks[i].ok /\ toks[i].tok[1].kind # "Eof"

\* C15: pos is always a valid index of toks; what advance / rollback return is
\* the change of pos and at most the count asked for (next / prev: true iff
\* pos moved by one); an Eof or an error is only ever the last buffered token
\* and nothing is read after it.
C15_LexerBuffer ==
    /\ [](pos >= 0 /\ pos < Len(toks) /\ OnlyLastEnds)
    /\ [][/\ Returned("advance") =>
                /\ ret'[1].returned = pos' - pos
                /\ ret'[1].returned <= ret'[1].count
          /\ Returned("rollback") =>
                /\ ret'[1].returned = pos - pos'
                /\ ret'[1].returned <= ret'[1].count
          /\ Returned("next") =>
                /\ pos' - pos \in {0, 1}
                /\ ret'[1].returned <=> pos' = pos + 1
          /\ Returned("prev") =>
                /\ pos - pos' \in {0, 1}
                /\ ret'[1].returned <=> pos' = pos - 1
          /\ ~(toks[Len(toks)].ok /\ toks[Len(toks)].tok[1].kind # "Eof") =>
                toks' = toks /\ reader' = reader
         ]_vars

\* rollback(2) has moved back by one only, from an error token that is the
\* last of a buffer of two.
C15_Witness ==
    /\ ret # <<>>
    /\ ret[1].op = "rollback"
    /\ ret[1].count = 2
    /\ ret[1].returned = 1
    /\ pos = 0
    /\ Len(toks) = 2
    /\ ~toks[2].ok

====
